---- MODULE Spec2Model ----
(***************************************************************************)
(* PUVOP: Posterior Urethral Valves Outcomes Prediction.                   *)
(*                                                                         *)
(* A model of the two Streamlit scripts of the repository:                 *)
(*   src/PUVOP.py  models cached with st.cache_data, scikit-survival step  *)
(*                 functions, risk curves and a 1/3/5/10 year table;       *)
(*   src/app.py    models cached with st.cache, pysurvival survival        *)
(*                 curves and 1/3 year survival estimates.                 *)
(*                                                                         *)
(* Numbers.  Probabilities are exact fractions: a survival value s in      *)
(* 0..Scale stands for s/Scale, and a value computed from them is a record *)
(* [n, d] standing for (n/d)/Scale.  Times are whole days.  Creatinine is  *)
(* entered in hundredths (the form's two decimals).  Arithmetic is exact   *)
(* where the scripts use IEEE doubles.                                     *)
(***************************************************************************)
EXTENDS Integers, Sequences, FiniteSets, TLC

\* ------------------------------------------------------------- bounds
\* A survival probability is one of 0/Scale .. Scale/Scale.
Scale == 8
\* The longest curve (number of knots) a predictor returns.
MaxKnots == 3
\* The most executions of the loading function's body that are counted.
MaxLoads == 3

\* ---------------------------------------------------------- constants
\* The days a predictor's time axis is drawn from: before the first
\* checkpoint, on checkpoints, between checkpoints.
TimeGrid == {200, 365, 1095, 2000, 3650}

OutcomeOrder == <<"CKD", "RRT", "CIC">>
Outcomes == {"CKD", "RRT", "CIC"}
Sessions == {1, 2}

DaysPerYear == 365
\* "Time (years)": [1, 3, 5, 10]
TimeYears == <<1, 3, 5, 10>>
\* predict_survival(data_features, t=365), t=1095
AppHorizons == <<365, 1095>>
\* if egfr < 15
EndStageEGFR == 15
\* snc/88.42, as the fraction 8842/100
UmolPerMgdL == [n |-> 8842, d |-> 100]

\* ------------------------------------------------------------ fractions
RatEq(a, b) == a.n * b.d = b.n * a.d
\* Fractions are kept in lowest terms (numerators >= 0, denominators > 0).
RECURSIVE GCD(_, _)
GCD(a, b) == IF b = 0 THEN a ELSE GCD(b, a % b)
Lowest(n, d) == LET g == GCD(n, d) IN [n |-> n \div g, d |-> d \div g]
RatDiv(a, b) == Lowest(a.n * b.d, a.d * b.n)
RatMul(a, b) == Lowest(a.n * b.n, a.d * b.d)
Whole(k) == [n |-> k, d |-> 1]

\* round(), np.round: to the nearest integer, a tie to the even one
\* (n >= 0, d > 0).
RoundHalfEven(n, d) ==
    LET q == n \div d
        r == n % d
    IN  IF 2 * r < d THEN q
        ELSE IF 2 * r > d THEN q + 1
        ELSE IF q % 2 = 0 THEN q ELSE q + 1

\* ---------------------------------------------------------------- curves
\* A survival function as a predictor returns it: fn.x the knot times
\* (strictly increasing), fn.y the survival value at each knot.
Increasing(x) == \A i \in 1..(Len(x) - 1) : x[i] < x[i + 1]

TimeAxes ==
    UNION {{x \in [1..k -> TimeGrid] : Increasing(x)} : k \in 1..MaxKnots}

\* The curves on the time axis x: every survival value at every knot.
CurvesOn(x) == {[x |-> x, y |-> y] : y \in [1..Len(x) -> 0..Scale]}

\* Survival never increases with time.
NonIncreasing(y) == \A i \in 1..(Len(y) - 1) : y[i] >= y[i + 1]

NoCurve == [x |-> <<>>, y |-> <<>>]

\* 1 - fn(fn.x): the step function at its own knots is fn.y.
RiskPlotsSurvival(fn) == fn.y

RiskOf(fn) == [i \in 1..Len(fn.y) |-> Scale - fn.y[i]]

\* np.interp(h, xp, fp), one-dimensional piecewise linear interpolation:
\* fp[first] left of the first knot, fp[last] at and right of the last
\* knot, else fp[j] + slope * (h - xp[j]) on the interval xp[j] <= h < xp[j+1].
InterpOffByOneDay(h, xp, fp) ==
    LET len == Len(xp)
    IN  IF h < xp[1] THEN Whole(fp[1])
        ELSE IF h >= xp[len] THEN Whole(fp[len])
        ELSE LET j == CHOOSE k \in 1..(len - 1) : xp[k] <= h /\ h < xp[k + 1]
                 w == xp[j + 1] - xp[j]
             IN  [n |-> fp[j] * w + (fp[j + 1] - fp[j]) * (h - xp[j] + 1), d |-> w]

InterpFromOrigin(h, xp, fp) ==
    LET len == Len(xp)
    IN  IF h < xp[1] THEN Whole(fp[1])
        ELSE IF h >= xp[len] THEN Whole(fp[len])
        ELSE LET j == CHOOSE k \in 1..(len - 1) : xp[k] <= h /\ h < xp[k + 1]
                 w == xp[j + 1] - xp[j]
             IN  [n |-> fp[j] * w + (fp[j + 1] - fp[j]) * h, d |-> w]

InterpLeftZero(h, xp, fp) ==
    LET len == Len(xp)
    IN  IF h < xp[1] THEN Whole(0)
        ELSE IF h >= xp[len] THEN Whole(fp[len])
        ELSE LET j == CHOOSE k \in 1..(len - 1) : xp[k] <= h /\ h < xp[k + 1]
                 w == xp[j + 1] - xp[j]
             IN  [n |-> fp[j] * w + (fp[j + 1] - fp[j]) * (h - xp[j]), d |-> w]

InterpRightExtrapolates(h, xp, fp) ==
    LET len == Len(xp)
    IN  IF h < xp[1] THEN Whole(fp[1])
        ELSE IF len = 1 THEN Whole(fp[len])
        ELSE LET j == IF h >= xp[len] THEN len - 1
                      ELSE CHOOSE k \in 1..(len - 1) : xp[k] <= h /\ h < xp[k + 1]
                 w == xp[j + 1] - xp[j]
             IN  [n |-> fp[j] * w + (fp[j + 1] - fp[j]) * (h - xp[j]), d |-> w]

np_interp(h, xp, fp) ==
    LET len == Len(xp)
    IN  IF h < xp[1] THEN Whole(fp[1])
        ELSE IF h >= xp[len] THEN Whole(fp[len])
        ELSE LET j == CHOOSE k \in 1..(len - 1) : xp[k] <= h /\ h < xp[k + 1]
                 w == xp[j + 1] - xp[j]
             IN  [n |-> fp[j] * w + (fp[j + 1] - fp[j]) * (h - xp[j]), d |-> w]

\* round(v * 100, 0) of a value v = (n/d)/Scale: whole percent.
RoundPercent(v) == RoundHalfEven(v.n * 100, v.d * Scale)

\* np.round(v * 100, 1) of a survival value s/Scale: tenths of a percent.
RoundTenths(s) == RoundHalfEven(s * 1000, Scale)

\* pysurvival's predict_survival(x, t): the survival value of the time
\* bucket nearest to t, the first one on a tie (argmin).
predict_survival(fn, t) ==
    LET dist(i) == IF fn.x[i] >= t THEN fn.x[i] - t ELSE t - fn.x[i]
        idx == CHOOSE i \in 1..Len(fn.x) :
                   /\ \A k \in 1..Len(fn.x) : dist(i) <= dist(k)
                   /\ \A k \in 1..(i - 1) : dist(k) > dist(i)
    IN  fn.y[idx]

\* ------------------------------------------------------- the form's input
\* st.selectbox / st.radio / st.number_input of the sidebar form.  snc is in
\* hundredths (0.50 is the form's default, 44.21 its umol/L equivalent),
\* egfr in whole units (58 the default, 15 the end-stage threshold).
Units == {"mg/dL", "umol/L"}
SncValues == {50, 4421}
EgfrValues == {10, 15, 58}

FormInputs ==
    [vur : {0, 1}, units : Units, snc : SncValues,
     renal_dysplasia : {0, 1}, egfr : EgfrValues]

\* The form before a submission: index=1, index=0, value=0.50, value=58.00.
DefaultInput ==
    [vur |-> 1, units |-> "mg/dL", snc |-> 50, renal_dysplasia |-> 1, egfr |-> 58]

\* if units == 'mg/dL': snc = snc  else: snc = snc/88.42
SncAlwaysDivided(units, snc) == RatDiv([n |-> snc, d |-> 100], UmolPerMgdL)

snc_mgdl(units, snc) ==
    IF units = "mg/dL"
    THEN [n |-> snc, d |-> 100]
    ELSE RatDiv([n |-> snc, d |-> 100], UmolPerMgdL)

\* data = {...}; pd.DataFrame(data, index=[0])
pt_features(in) ==
    [vur |-> in.vur, snc1 |-> snc_mgdl(in.units, in.snc),
     renal_dysplasia |-> in.renal_dysplasia, egfr |-> in.egfr]

\* ------------------------------------------------- one outcome's evaluation
Pos(o) == CHOOSE i \in 1..Len(OutcomeOrder) : OutcomeOrder[i] = o

\* The statements of outcome o run when no earlier predictor call, nor its
\* own, has raised: an uncaught exception ends the script run.
Reached(o, raises) == raises = "none" \/ Pos(o) < Pos(raises)

NoCalc ==
    [called |-> FALSE, surv |-> NoCurve, plot |-> <<>>, fp |-> <<>>,
     interp |-> <<>>, est |-> <<>>]

\* years: the rows' horizon column ("Time (years)", "at 1 year" / "at 3 years").
NoShow ==
    [years |-> <<>>, est |-> <<>>, fig |-> FALSE, msg |-> FALSE, flag |-> "none"]

\* predict_survival_function(pt_features): one step function for each row of
\* pt_features, which pd.DataFrame(data, index=[0]) gives exactly one row.
predict_survival_function(curve) == <<curve>>

\* The loop variable fn after `for fn in ckd_surv:` (rrt_surv, cic_surv), the
\* loop of the i-th outcome: the last element of that array, and what the
\* loop before left when the array is empty.
fn_of_first_loop(i, curves) ==
    predict_survival_function(curves[OutcomeOrder[1]])[1]

RECURSIVE fn_after_loop(_, _)
fn_after_loop(i, curves) ==
    LET survs == predict_survival_function(curves[OutcomeOrder[i]])
    IN  IF survs # <<>> THEN survs[Len(survs)]
        ELSE IF i > 1 THEN fn_after_loop(i - 1, curves)
        ELSE NoCurve

\* PUVOP.py: the curve plotted (ax_ind.step), the series handed to np.interp,
\* the four interpolated risks and their rounding to whole percent.
individual_risk_rows_swapped(fn) ==
    LET risk == RiskOf(fn)
        at == [i \in 1..Len(TimeYears) |->
                  np_interp(TimeYears[i] * DaysPerYear, fn.x, risk)]
        row == <<1, 3, 2, 4>>
    IN  [called |-> TRUE, surv |-> fn, plot |-> risk, fp |-> risk,
         interp |-> at,
         est |-> [i \in 1..Len(TimeYears) |-> RoundPercent(at[row[i]])]]

individual_risk(fn) ==
    LET risk == RiskOf(fn)
        at == [i \in 1..Len(TimeYears) |->
                  np_interp(TimeYears[i] * DaysPerYear, fn.x, risk)]
    IN  [called |-> TRUE, surv |-> fn, plot |-> risk, fp |-> risk,
         interp |-> at,
         est |-> [i \in 1..Len(TimeYears) |-> RoundPercent(at[i])]]

\* app.py: the survival curve plotted (plt.plot), the survival at 1 and 3
\* years and their rounding to a tenth of a percent.
survival_prob(fn) ==
    LET at == [i \in 1..Len(AppHorizons) |-> predict_survival(fn, AppHorizons[i])]
    IN  [called |-> TRUE, surv |-> fn, plot |-> fn.y, fp |-> <<>>,
         interp |-> [i \in 1..Len(AppHorizons) |-> Whole(at[i])],
         est |-> [i \in 1..Len(AppHorizons) |-> RoundTenths(at[i])]]

\* ------------------------------------------------------------ script runs
\* What one completed script run leaves: the form's values, the feature
\* vector, each outcome's intermediate values (calc), what each predictor
\* call returned (returned), the elements written to
\* each outcome's column (shown) and the uncaught exception, if any.
BlankRun ==
    [submitted |-> FALSE, input |-> DefaultInput,
     data |-> pt_features(DefaultInput),
     calc |-> [o \in Outcomes |-> NoCalc],
     returned |-> [o \in Outcomes |-> <<>>],
     shown |-> [o \in Outcomes |-> NoShow],
     error |-> "none"]

\* PUVOP.py `if submitted:`.  The three outcomes are computed in turn and
\* the six elements are written only after the last one (col1.pyplot ...
\* col3.dataframe), so an exception in any predictor leaves nothing shown.
submitted_PUVOP(in, curves, raises) ==
    LET calc == [o \in Outcomes |->
                    IF Reached(o, raises)
                    THEN individual_risk(fn_after_loop(Pos(o), curves))
                    ELSE NoCalc]
    IN  [submitted |-> TRUE, input |-> in, data |-> pt_features(in),
         calc |-> calc,
         returned |-> [o \in Outcomes |->
                          IF Reached(o, raises)
                          THEN predict_survival_function(curves[o]) ELSE <<>>],
         shown |-> [o \in Outcomes |->
                       IF raises = "none"
                       THEN [years |-> TimeYears, est |-> calc[o].est,
                             fig |-> TRUE, msg |-> FALSE, flag |-> "none"]
                       ELSE NoShow],
         error |-> raises]

\* The end-stage rule of app.py: `if egfr < 15:` the message, else the figure.
EndStage(egfr) == egfr < EndStageEGFR

\* app.py `if submitted:`.  Each outcome writes its two estimates and its
\* figure before the next predictor is called; CKD's figure gives way to the
\* end-stage message.
full_app_end_stage_all(in, curves, raises) ==
    LET calc == [o \in Outcomes |->
                    IF Reached(o, raises) THEN survival_prob(curves[o]) ELSE NoCalc]
    IN  [submitted |-> TRUE, input |-> in, data |-> pt_features(in),
         calc |-> calc,
         returned |-> [o \in Outcomes |->
                          IF Reached(o, raises) THEN <<curves[o]>> ELSE <<>>],
         shown |-> [o \in Outcomes |->
                       IF Reached(o, raises)
                       THEN [years |-> <<1, 3>>, est |-> calc[o].est,
                             fig |-> ~EndStage(in.egfr),
                             msg |-> o = "CKD" /\ EndStage(in.egfr),
                             flag |-> "none"]
                       ELSE NoShow],
         error |-> raises]

full_app(in, curves, raises) ==
    LET calc == [o \in Outcomes |->
                    IF Reached(o, raises) THEN survival_prob(curves[o]) ELSE NoCalc]
    IN  [submitted |-> TRUE, input |-> in, data |-> pt_features(in),
         calc |-> calc,
         returned |-> [o \in Outcomes |->
                          IF Reached(o, raises) THEN <<curves[o]>> ELSE <<>>],
         shown |-> [o \in Outcomes |->
                       IF Reached(o, raises)
                       THEN [years |-> <<1, 3>>, est |-> calc[o].est,
                             fig |-> ~(o = "CKD" /\ EndStage(in.egfr)),
                             msg |-> o = "CKD" /\ EndStage(in.egfr),
                             flag |-> "none"]
                       ELSE NoShow],
         error |-> raises]

\* The script's statements after the loading call, for one request: the
\* form's values and what the predictors do with them.
ScriptRun(which, rq) ==
    IF ~rq.submitted THEN BlankRun
    ELSE IF which = "PUVOP" THEN submitted_PUVOP(rq.in, rq.curves, rq.raises)
    ELSE full_app(rq.in, rq.curves, rq.raises)

\* ---------------------------------------------------------------- state
VARIABLES
    script,      \* the script this Streamlit process serves: "PUVOP" or "app"
    cache,       \* the function cache of load_models / load_items holds the handles
    lock,        \* st.cache_data's per-value compute lock: its holder, or 0
    pc,          \* each session's script run: "idle", "locking", "loading", "body"
    loads,       \* how often the loading function's body has been entered
    loadFailed,  \* some execution of the loading function has raised
    req,         \* the request of a script run that is past its loading call
    run          \* what the last completed script run computed and showed

vars == <<script, cache, lock, pc, loads, loadFailed, req, run>>

\* ------------------------------------------------------------- requests
\* What a predictor returns for a submission in the application's runs.
SmallCurves ==
    {[x |-> <<365, 1095, 3650>>, y |-> <<Scale, Scale - 2, 1>>],
     [x |-> <<200, 2000>>, y |-> <<Scale - 1, Scale - 3>>]}

DefaultCurve == [x |-> <<365, 1095, 3650>>, y |-> <<Scale, Scale - 2, 1>>]

NoRequest ==
    [submitted |-> FALSE, in |-> DefaultInput,
     curves |-> [o \in Outcomes |-> NoCurve], raises |-> "none"]

Request(in, curves, raises) ==
    [submitted |-> TRUE, in |-> in, curves |-> curves, raises |-> raises]

\* Every form value, every assignment of the small curves, every predictor
\* as the first to raise.
FormRequests ==
    {Request(in, curves, raises) :
        in \in FormInputs, curves \in [Outcomes -> SmallCurves],
        raises \in Outcomes \cup {"none"}}

\* The default form, the predictor of outcome w returning the curve fn.
CurveRequest(w, fn) ==
    Request(DefaultInput, [o \in Outcomes |-> IF o = w THEN fn ELSE DefaultCurve],
            "none")

\* The requests of the process's life: a page load, the default submission,
\* an end-stage submission, submissions whose RRT or CKD predictor raises.
LifeRequests ==
    {NoRequest,
     Request(DefaultInput, [o \in Outcomes |-> DefaultCurve], "none"),
     Request([DefaultInput EXCEPT !.egfr = 10], [o \in Outcomes |-> DefaultCurve], "none"),
     Request(DefaultInput, [o \in Outcomes |-> DefaultCurve], "RRT"),
     Request([DefaultInput EXCEPT !.units = "umol/L", !.snc = 4421],
             [o \in Outcomes |-> DefaultCurve], "CKD")}

\* The uncaught exception of a script run: none, a predictor's, the loader's.
LoadErrorRun == [BlankRun EXCEPT !.error = "load"]

Release(s) == IF lock = s THEN 0 ELSE lock

\* -------------------------------------------------------------- actions
\* A script run starts (a page load, a widget change, a submit), finds the
\* value of the loading function in the cache and runs to its end.
CacheHit(s) ==
    /\ pc[s] = "idle"
    /\ cache
    /\ \E rq \in LifeRequests : run' = ScriptRun(script, rq)
    /\ UNCHANGED <<script, cache, lock, pc, loads, loadFailed, req>>

\* app.py, @st.cache: on a miss the wrapper calls load_items at once; nothing
\* keeps a second session from missing and calling it too.
load_items(s) ==
    /\ script = "app"
    /\ pc[s] = "idle"
    /\ ~cache
    /\ loads < MaxLoads
    /\ loads' = loads + 1
    /\ pc' = [pc EXCEPT ![s] = "loading"]
    /\ UNCHANGED <<script, cache, lock, loadFailed, req, run>>

\* PUVOP.py, @st.cache_data: on a miss the wrapper waits for the value's
\* compute lock ...
CacheDataMiss(s) ==
    /\ script = "PUVOP"
    /\ pc[s] = "idle"
    /\ ~cache
    /\ pc' = [pc EXCEPT ![s] = "locking"]
    /\ UNCHANGED <<script, cache, lock, loads, loadFailed, req, run>>

\* ... and with the lock reads the cache again: another session has loaded
\* the models meanwhile, and the script runs to its end,
LockedHit(s) ==
    /\ pc[s] = "locking"
    /\ lock = 0
    /\ cache
    /\ pc' = [pc EXCEPT ![s] = "idle"]
    /\ \E rq \in LifeRequests : run' = ScriptRun(script, rq)
    /\ UNCHANGED <<script, cache, lock, loads, loadFailed, req>>

\* or it has not, and load_models is called with the lock held.
load_models(s) ==
    /\ pc[s] = "locking"
    /\ lock = 0
    /\ ~cache
    /\ loads < MaxLoads
    /\ lock' = s
    /\ loads' = loads + 1
    /\ pc' = [pc EXCEPT ![s] = "loading"]
    /\ UNCHANGED <<script, cache, loadFailed, req, run>>

\* The loading function returns the three handles: they are written to the
\* cache and the script runs to its end.
LoadReturns(s) ==
    /\ pc[s] = "loading"
    /\ cache' = TRUE
    /\ lock' = Release(s)
    /\ pc' = [pc EXCEPT ![s] = "idle"]
    /\ \E rq \in LifeRequests : run' = ScriptRun(script, rq)
    /\ UNCHANGED <<script, loads, loadFailed, req>>

\* The loading function raises (joblib.load / load_model on a missing or
\* corrupt artifact, a failed download): nothing is cached, the exception
\* ends this script run and is shown on its page.
LoadRaises(s) ==
    /\ pc[s] = "loading"
    /\ loadFailed' = TRUE
    /\ lock' = Release(s)
    /\ pc' = [pc EXCEPT ![s] = "idle"]
    /\ run' = LoadErrorRun
    /\ UNCHANGED <<script, cache, loads, req>>

\* The statements after the loading call, for the request at hand.
Evaluate(s) ==
    /\ pc[s] = "body"
    /\ req # <<>>
    /\ run' = ScriptRun(script, req[1])
    /\ pc' = [pc EXCEPT ![s] = "idle"]
    /\ req' = <<>>
    /\ UNCHANGED <<script, cache, lock, loads, loadFailed>>

\* ------------------------------------------------------- specifications
\* The process from its start: two sessions, the models not yet loaded.
Init ==
    /\ script \in {"PUVOP", "app"}
    /\ cache = FALSE
    /\ lock = 0
    /\ pc = [s \in Sessions |-> "idle"]
    /\ loads = 0
    /\ loadFailed = FALSE
    /\ req = <<>>
    /\ run = BlankRun

Next ==
    \E s \in Sessions :
        \/ CacheHit(s)
        \/ load_items(s)
        \/ CacheDataMiss(s)
        \/ LockedHit(s)
        \/ load_models(s)
        \/ LoadReturns(s)
        \/ LoadRaises(s)

Spec == Init /\ [][Next]_vars

\* A script run of a process whose models are loaded, past its loading call.
Loaded(rq) ==
    /\ cache = TRUE
    /\ lock = 0
    /\ pc = [s \in Sessions |-> IF s = 1 THEN "body" ELSE "idle"]
    /\ loads = 1
    /\ loadFailed = FALSE
    /\ req = <<rq>>
    /\ run = BlankRun

\* The submission: every form value, under either script.
InitSubmit ==
    /\ script \in {"PUVOP", "app"}
    /\ \E rq \in FormRequests : Loaded(rq)

NextSubmit == \E s \in Sessions : Evaluate(s)

SpecSubmit == InitSubmit /\ [][NextSubmit]_vars

\* The risk curve and its checkpoint table (PUVOP.py), for every curve.
InitCurve ==
    /\ script = "PUVOP"
    /\ \E w \in Outcomes, x \in TimeAxes :
           \E fn \in CurvesOn(x) : Loaded(CurveRequest(w, fn))

SpecCurve == InitCurve /\ [][NextSubmit]_vars

\* ---------------------------------------------------------------- claims
Last(x) == x[Len(x)]
Horizon(i) == TimeYears[i] * DaysPerYear
Computed(o) == run.submitted /\ run.calc[o].called
RiskAt(o, j) == Scale - run.calc[o].surv.y[j]

\* C1: a checkpoint whose horizon lies beyond the curve's last observed time
\* is reported as out of domain and carries no numeric estimate.
C1_OutOfDomainReported ==
    \A o \in Outcomes : \A i \in 1..Len(TimeYears) :
        (Computed(o) /\ run.error = "none" /\ Horizon(i) > Last(run.calc[o].surv.x))
            => run.shown[o].est[i] \notin Int

\* C2: a submission with baseline eGFR below 15 shows, for CKD, the
\* end-stage message and neither a CKD curve nor a CKD checkpoint estimate.
C2_EndStageSuppressesCKD ==
    (run.submitted /\ run.error = "none" /\ run.input.egfr < EndStageEGFR)
        => /\ run.shown["CKD"].msg
           /\ ~run.shown["CKD"].fig
           /\ run.shown["CKD"].est = <<>>

\* C3: on a monotonic curve, the value interpolated at a horizon that is one
\* of the curve's knot times is exactly the risk at that knot.
C3_KnotExact ==
    \A o \in Outcomes : \A i \in 1..Len(TimeYears) :
        Computed(o) /\ NonIncreasing(run.calc[o].surv.y)
            => \A j \in 1..Len(run.calc[o].surv.x) :
                   run.calc[o].surv.x[j] = Horizon(i)
                       => run.calc[o].interp[i].n
                              = RiskAt(o, j) * run.calc[o].interp[i].d

C3_Witness ==
    \E o \in Outcomes : \E i \in 1..Len(TimeYears) :
        /\ Computed(o)
        /\ NonIncreasing(run.calc[o].surv.y)
        /\ \E j \in 1..(Len(run.calc[o].surv.x) - 1) :
               /\ run.calc[o].surv.x[j] = Horizon(i)
               /\ run.calc[o].surv.y[j] > run.calc[o].surv.y[j + 1]

\* C4: at a horizon h strictly between two adjacent knots x0 < h < x1 the
\* interpolated value is y0 + (y1 - y0) * (h - x0) / (x1 - x0) and lies
\* between y0 and y1 inclusive.
C4_NoOvershoot ==
    \A o \in Outcomes : \A i \in 1..Len(TimeYears) :
        Computed(o)
            => \A j \in 1..(Len(run.calc[o].surv.x) - 1) :
                   LET x0 == run.calc[o].surv.x[j]
                       x1 == run.calc[o].surv.x[j + 1]
                       y0 == RiskAt(o, j)
                       y1 == RiskAt(o, j + 1)
                       v == run.calc[o].interp[i]
                       lo == IF y0 <= y1 THEN y0 ELSE y1
                       hi == IF y0 <= y1 THEN y1 ELSE y0
                   IN  (x0 < Horizon(i) /\ Horizon(i) < x1)
                           => /\ lo * v.d <= v.n
                              /\ v.n <= hi * v.d
                              /\ v.n * (x1 - x0)
                                     = v.d * (y0 * (x1 - x0) + (y1 - y0) * (Horizon(i) - x0))

C4_Witness ==
    \E o \in Outcomes : \E i \in 1..Len(TimeYears) :
        /\ Computed(o)
        /\ \E j \in 1..(Len(run.calc[o].surv.x) - 1) :
               /\ run.calc[o].surv.x[j] < Horizon(i)
               /\ Horizon(i) < run.calc[o].surv.x[j + 1]
               /\ run.calc[o].surv.y[j] # run.calc[o].surv.y[j + 1]

\* C5: at every time of an outcome's curve, the risk that is plotted and the
\* risk that is interpolated add up to 1 with the predictor's survival
\* probability, unrounded.
C5_RiskComplementsSurvival ==
    \A o \in Outcomes :
        Computed(o)
            => /\ Len(run.calc[o].plot) = Len(run.calc[o].surv.y)
               /\ Len(run.calc[o].fp) = Len(run.calc[o].surv.y)
               /\ \A k \in 1..Len(run.calc[o].surv.y) :
                      /\ run.calc[o].plot[k] + run.calc[o].surv.y[k] = Scale
                      /\ run.calc[o].fp[k] + run.calc[o].surv.y[k] = Scale

C5_Witness ==
    \E o \in Outcomes :
        /\ Computed(o)
        /\ run.shown[o].fig
        /\ \E k \in 1..Len(run.calc[o].surv.y) :
               /\ run.calc[o].surv.y[k] # 0
               /\ 2 * run.calc[o].surv.y[k] # Scale

\* C6: the feature 'SNC1 (mg/dL)' is the entered value when the unit is
\* mg/dL and the entered value divided by 88.42 when it is umol/L, so that
\* multiplying it by 88.42 gives the entered value back (44.21 -> 0.5 -> 44.21).
C6_CreatinineUnits ==
    run.submitted
        => LET entered == [n |-> run.input.snc, d |-> 100]
               snc1 == run.data.snc1
           IN  /\ run.input.units = "mg/dL" => RatEq(snc1, entered)
               /\ run.input.units = "umol/L"
                      => /\ RatEq(RatMul(snc1, UmolPerMgdL), entered)
                         /\ run.input.snc = 4421 => RatEq(snc1, [n |-> 1, d |-> 2])

C6_Witness ==
    /\ run.submitted
    /\ run.input.units = "umol/L"
    /\ run.input.snc = 4421
    /\ RatEq(run.data.snc1, [n |-> 1, d |-> 2])

\* C7: when the evaluation of one outcome fails, the other two outcomes are
\* still computed and shown, the failure being noted on the failed one only.
C7_OutcomesIndependent ==
    (run.submitted /\ run.error \in Outcomes)
        => \A o \in Outcomes \ {run.error} :
               /\ run.calc[o].called
               /\ run.shown[o].est # <<>>

\* C8: in one process the loading function's body runs at most once, however
\* the sessions' script runs interleave.
C8_LoadAtMostOnce == loads <= 1

\* C9: once a load has failed, no later script run attempts the load again.
C9_NoRetryAfterFailure == [][loadFailed => loads' = loads]_vars

\* C10: a curve whose survival probability rises somewhere is never shown
\* without a MonotonicityViolation flag on its outcome.
C10_MonotonicityFlagged ==
    \A o \in Outcomes :
        (Computed(o) /\ run.shown[o].est # <<>> /\ ~NonIncreasing(run.calc[o].surv.y))
            => run.shown[o].flag = "MonotonicityViolation"

\* C11: an outcome's checkpoint table has one row for each configured
\* horizon, in the order 1, 3, 5, 10 years, and the estimate of each row is
\* the value interpolated at that row's own horizon.
C11_TableRows ==
    \A o \in Outcomes :
        (Computed(o) /\ run.shown[o].est # <<>>)
            => /\ run.shown[o].years = <<1, 3, 5, 10>>
               /\ Len(run.shown[o].est) = Len(run.shown[o].years)
               /\ \A i \in 1..Len(run.shown[o].years) :
                      run.shown[o].est[i]
                          = RoundPercent(
                                np_interp(run.shown[o].years[i] * DaysPerYear,
                                          run.calc[o].surv.x,
                                          [k \in 1..Len(run.calc[o].surv.y) |->
                                              RiskAt(o, k)]))

C11_Witness ==
    \E o \in Outcomes :
        /\ Computed(o)
        /\ Len(run.shown[o].est) = 4
        /\ run.shown[o].est[1] < run.shown[o].est[2]
        /\ run.shown[o].est[2] < run.shown[o].est[3]
        /\ run.shown[o].est[3] < run.shown[o].est[4]

\* C12: a checkpoint whose horizon lies before the curve's first observed
\* time gets the curve's first value, the risk at the first knot.
C12_BeforeFirstKnot ==
    \A o \in Outcomes : \A i \in 1..Len(TimeYears) :
        (Computed(o) /\ Horizon(i) < run.calc[o].surv.x[1])
            => /\ RatEq(run.calc[o].interp[i], Whole(RiskAt(o, 1)))
               /\ run.shown[o].est[i] = RoundHalfEven(RiskAt(o, 1) * 100, Scale)

C12_Witness ==
    \E o \in Outcomes : \E i \in 1..Len(TimeYears) :
        /\ Computed(o)
        /\ Horizon(i) < run.calc[o].surv.x[1]
        /\ RiskAt(o, 1) > 0
        /\ run.shown[o].est[i] > 0

\* C13: the checkpoint estimates of each outcome are interpolated from the
\* curve that this outcome's predictor returned in this submission: the loop
\* variable fn read after a plotting loop is never another outcome's curve.
C13_OwnCurve ==
    \A o \in Outcomes :
        (script = "PUVOP" /\ Computed(o))
            => /\ run.returned[o] # <<>>
               /\ run.calc[o].surv = Last(run.returned[o])
               /\ \A i \in 1..Len(TimeYears) :
                      run.calc[o].interp[i]
                          = np_interp(Horizon(i), Last(run.returned[o]).x,
                                      [k \in 1..Len(Last(run.returned[o]).y) |->
                                          Scale - Last(run.returned[o]).y[k]])

C13_Witness ==
    /\ script = "PUVOP"
    /\ \A o \in Outcomes : Computed(o) /\ run.shown[o].est # <<>>
    /\ run.returned["CKD"] # run.returned["RRT"]
    /\ run.returned["RRT"] # run.returned["CIC"]
    /\ run.calc["CKD"].est # run.calc["RRT"].est

\* C14: for a survival curve that is non-increasing in time with values in
\* [0, 1], the reported whole-percent risks are non-decreasing in the horizon
\* (1 year <= 3 years <= 5 years <= 10 years) and each lies in 0..100.
C14_RisksOrderedInRange ==
    \A o \in Outcomes :
        (Computed(o) /\ run.shown[o].est # <<>> /\ NonIncreasing(run.calc[o].surv.y))
            => /\ \A i \in 1..Len(run.shown[o].est) :
                      run.shown[o].est[i] \in 0..100
               /\ \A i \in 1..(Len(run.shown[o].est) - 1) :
                      run.shown[o].est[i] <= run.shown[o].est[i + 1]

C14_Witness ==
    \E o \in Outcomes :
        /\ Computed(o)
        /\ NonIncreasing(run.calc[o].surv.y)
        /\ Len(run.calc[o].surv.x) >= 2
        /\ Last(run.calc[o].surv.x) < Horizon(4)
        /\ run.shown[o].est[1] < run.shown[o].est[3]
        /\ run.shown[o].est[4] = 100
        /\ \E i \in 1..Len(TimeYears) :
               (run.calc[o].interp[i].n * 100) % (run.calc[o].interp[i].d * Scale) # 0

\* C15: the end-stage rule (baseline eGFR < 15) changes only the CKD output:
\* in the same submission the RRT and CIC curves and their 1-year and 3-year
\* estimates are computed and displayed exactly as in the submission with the
\* same predictor results where the rule does not fire.
C15_EndStageOnlyCKD ==
    (script = "app" /\ run.submitted /\ EndStage(run.input.egfr))
        => LET returned == [o \in Outcomes |->
                               IF run.returned[o] # <<>> THEN run.returned[o][1]
                               ELSE NoCurve]
               other == full_app([run.input EXCEPT !.egfr = EndStageEGFR],
                                 returned, run.error)
           IN  \A o \in Outcomes \ {"CKD"} :
                   /\ run.calc[o] = other.calc[o]
                   /\ run.shown[o] = other.shown[o]
                   /\ Computed(o) => /\ run.shown[o].fig
                                     /\ ~run.shown[o].msg
                                     /\ run.shown[o].est = run.calc[o].est

C15_Witness ==
    /\ script = "app"
    /\ run.submitted
    /\ run.error = "none"
    /\ EndStage(run.input.egfr)
    /\ run.shown["CKD"].msg
    /\ ~run.shown["CKD"].fig
    /\ run.shown["RRT"].fig /\ Len(run.shown["RRT"].est) = 2
    /\ run.shown["CIC"].fig /\ Len(run.shown["CIC"].est) = 2
    /\ run.returned["RRT"] # run.returned["CIC"]
====
